---- MODULE Spec2Model ----
(***************************************************************************)
(* Model of app.py: the PMP (Probable Maximum Precipitation) service.      *)
(*                                                                         *)
(* Python floats are modelled as exact real numbers of the form            *)
(*     q + c1*sqrt(m1) + c2*sqrt(m2) + ...                                 *)
(* with q, ci rational and mi distinct squarefree integers > 1.  This is a *)
(* canonical form, so equality of two numbers is equality of their         *)
(* records.  Every arithmetic operation of the program (+, -, *, /, **2,   *)
(* sqrt, max, min, round) is computed on this form; rounding error of the  *)
(* IEEE doubles is not modelled.                                           *)
(***************************************************************************)
EXTENDS Integers, Sequences, FiniteSets, TLC

(***************************************************************************)
(* Bounds of the model.                                                    *)
(***************************************************************************)
MaxN == 4          \* longest AMDP series given to the calculator
MaxAmdp == 3       \* largest AMDP value of a drawn series
MaxDays == 3       \* longest daily precipitation series of one year
MaxYears == 3      \* number of calendar years a request can span
FirstYear == 2020  \* first calendar year a request can name

\* Python's None is the empty tuple and a present value v is <<v>>.
None == <<>>
Some(v) == <<v>>

(***************************************************************************)
(* Rationals: [n |-> numerator, d |-> denominator], d > 0, gcd(n, d) = 1.  *)
(***************************************************************************)
Abs(x) == IF x < 0 THEN -x ELSE x

RECURSIVE Gcd(_, _)
Gcd(a, b) == IF b = 0 THEN a ELSE Gcd(b, a % b)

Reduce(n, d, g) == [n |-> n \div g, d |-> d \div g]

Rat(n, d) == IF d < 0 THEN Reduce(-n, -d, Gcd(Abs(n), Abs(d)))
                      ELSE Reduce(n, d, Gcd(Abs(n), Abs(d)))

RInt(i) == [n |-> i, d |-> 1]
RZero == RInt(0)
RAdd(a, b) == Rat(a.n * b.d + b.n * a.d, a.d * b.d)
RNeg(a) == [n |-> -a.n, d |-> a.d]
RSub(a, b) == RAdd(a, RNeg(b))
RMul(a, b) == Rat(a.n * b.n, a.d * b.d)
RInv(a) == Rat(a.d, a.n)
RDiv(a, b) == RMul(a, RInv(b))
RAbs(a) == [n |-> Abs(a.n), d |-> a.d]
RSign(a) == IF a.n > 0 THEN 1 ELSE IF a.n < 0 THEN -1 ELSE 0
RLt(a, b) == a.n * b.d < b.n * a.d
RFloor(a) == a.n \div a.d

(***************************************************************************)
(* Integer square root and the square part of a positive integer.          *)
(***************************************************************************)
\* Largest r with r*r <= x (floor of the square root), by bisection.
RECURSIVE ISqrtIn(_, _, _)
ISqrtIn(x, lo, hi) ==
    IF lo >= hi THEN lo
    ELSE LET mid == (lo + hi + 1) \div 2
         IN  IF mid <= x \div mid THEN ISqrtIn(x, mid, hi)
                                  ELSE ISqrtIn(x, lo, mid - 1)

ISqrt(x) == IF x <= 0 THEN 0 ELSE ISqrtIn(x, 1, x)

\* Largest s with s*s dividing x (x > 0).
RECURSIVE SquarePartFrom(_, _)
SquarePartFrom(x, s) ==
    IF s <= 1 THEN 1
    ELSE IF x % (s * s) = 0 THEN s ELSE SquarePartFrom(x, s - 1)

SquarePart(x) == SquarePartFrom(x, ISqrt(x))

(***************************************************************************)
(* Numbers: [q |-> rational part, t |-> [m \in Ms |-> coefficient of       *)
(* sqrt(m)]], Ms a finite set of squarefree integers > 1, coefficients     *)
(* non-zero.                                                               *)
(***************************************************************************)
NoTerms == [m \in {} |-> RZero]
NRat(r) == [q |-> r, t |-> NoTerms]
NInt(i) == NRat(RInt(i))
NFrac(n, d) == NRat(Rat(n, d))
NZero == NInt(0)

Coef(a, m) == IF m \in DOMAIN a.t THEN a.t[m] ELSE RZero

\* The terms of a number without those of coefficient 0.
Strip(t) == [m \in {k \in DOMAIN t : t[k].n # 0} |-> t[m]]

NAdd(a, b) ==
    [q |-> RAdd(a.q, b.q),
     t |-> Strip([m \in (DOMAIN a.t) \cup (DOMAIN b.t) |-> RAdd(Coef(a, m), Coef(b, m))])]

NNeg(a) == [q |-> RNeg(a.q), t |-> [m \in DOMAIN a.t |-> RNeg(a.t[m])]]
NSub(a, b) == NAdd(a, NNeg(b))

\* c * sqrt(x) for a rational c and an integer x >= 0.
\* k * sqrt(m) for a rational k # 0 and a squarefree integer m >= 1.
Term(k, m) == IF m = 1 THEN NRat(k) ELSE [q |-> RZero, t |-> [j \in {m} |-> k]]

\* c * sqrt(x), s the square part of x.
MonoBy(c, x, s) == Term(RMul(c, RInt(s)), x \div (s * s))

Mono(c, x) == IF x = 0 \/ c.n = 0 THEN NZero ELSE MonoBy(c, x, SquarePart(x))

\* The monomials of a number, as (coefficient, radicand) pairs; radicand 1
\* stands for the rational part.
Monos(a) ==
    (IF a.q.n # 0 THEN {<<a.q, 1>>} ELSE {}) \cup {<<a.t[m], m>> : m \in DOMAIN a.t}

\* Product of two monomials: (c1*sqrt(x1)) * (c2*sqrt(x2)).
MonoMul(x, y) == Mono(RMul(x[1], y[1]), x[2] * y[2])

Pick(S) == CHOOSE y \in S : TRUE

RECURSIVE NSumProd(_)
NSumProd(ps) ==
    IF ps = {} THEN NZero
    ELSE NAdd(MonoMul(Pick(ps)[1], Pick(ps)[2]), NSumProd(ps \ {Pick(ps)}))

NMul(a, b) == NSumProd(Monos(a) \X Monos(b))

NSquare(a) == NMul(a, a)

IsRational(a) == DOMAIN a.t = {}
IsMonomial(a) == Cardinality(Monos(a)) = 1

\* 1 / (c*sqrt(x)) = (1 / (c*x)) * sqrt(x).
MonoInv(p) == Mono(RInv(RMul(p[1], RInt(p[2]))), p[2])

\* a / b.  Every divisor of the program is a monomial: a rational or a
\* rational multiple of one square root.
NDiv(a, b) == NMul(a, MonoInv(Pick(Monos(b))))

\* math.sqrt of a non-negative rational p/d: sqrt(p*d) / d.
NSqrt(a) == Mono(Rat(1, a.q.d), a.q.n * a.q.d)

(***************************************************************************)
(* Sign of a number: -1, 0 or 1.                                           *)
(***************************************************************************)
\* The square of the monomial c*sqrt(m), a rational.
MonoSq(p) == RMul(RMul(p[1], p[1]), RInt(p[2]))

\* ratio * sqrt(x) < sqrt(y) for a rational ratio >= 0 and squarefree x, y.
\* Decided without squaring when the two sides are plainly apart.
RootLt(ratio, x, y) ==
    IF x = y THEN ratio.n < ratio.d
    ELSE IF x <= y /\ ratio.n <= ratio.d THEN TRUE
    ELSE IF x >= y /\ ratio.n >= ratio.d THEN FALSE
    ELSE IF x = 1 /\ ratio.n \div ratio.d >= y THEN FALSE
    ELSE IF y = 1 /\ ratio.d \div ratio.n >= x THEN TRUE
    ELSE ratio.n * ratio.n * x < ratio.d * ratio.d * y

\* |p| < |r| for monomials p = c*sqrt(x), r = e*sqrt(y).
MonoAbsLt(p, r) == RootLt(RAbs(RDiv(p[1], r[1])), p[2], r[2])

MonoSign(p) == RSign(p[1])

\* Sign of p + r for monomials p, r.
SignPair(p, r) ==
    IF MonoSign(p) = MonoSign(r) THEN MonoSign(p)
    ELSE IF MonoAbsLt(p, r) THEN MonoSign(r) ELSE MonoSign(p)

\* Sign of a sum of at most two monomials.
Sign2(ms) ==
    IF ms = {} THEN 0
    ELSE IF Cardinality(ms) = 1 THEN MonoSign(Pick(ms))
    ELSE SignPair(Pick(ms), Pick(ms \ {Pick(ms)}))

\* q^2 - (p + r)^2 for a rational q and monomials p, r.
SquareGap(q, p, r) ==
    NSub(NRat(RSub(RMul(q, q), RAdd(MonoSq(p), MonoSq(r)))),
         NMul(NInt(2), MonoMul(p, r)))

\* Sign of q + y, y = p + r a sum of two square-root terms of sign sy: when
\* q's sign is opposite, that of the larger in absolute value.
SignMixed(q, p, r, sy) ==
    IF RSign(q) = 0 \/ RSign(q) = sy THEN sy
    ELSE IF Sign2(Monos(SquareGap(q, p, r))) > 0 THEN RSign(q) ELSE sy

Surds(a) == {<<a.t[m], m>> : m \in DOMAIN a.t}

Sign3(a) ==
    SignMixed(a.q, Pick(Surds(a)), Pick(Surds(a) \ {Pick(Surds(a))}), Sign2(Surds(a)))

Sign(a) == IF Cardinality(Monos(a)) <= 2 THEN Sign2(Monos(a)) ELSE Sign3(a)

NLt(a, b) == Sign(NSub(b, a)) > 0
NLe(a, b) == Sign(NSub(b, a)) >= 0

NMaxPy(a, b) == IF NLt(a, b) THEN b ELSE a   \* Python max(a, b)
NMinPy(a, b) == IF NLt(b, a) THEN b ELSE a   \* Python min(a, b)

\* Floor of a number that is rational or a non-negative multiple of one
\* square root: floor(c*sqrt(m)) = isqrt(floor(c*c*m)).
NFloor(a) ==
    IF IsRational(a) THEN RFloor(a.q)
    ELSE ISqrt(RFloor(MonoSq(Pick(Monos(a)))))

\* Python round(x, 2): the nearest hundredth, a tie going to the even one.
\* x to the nearest hundredth, a tie going to the even one; x200 = 200*x and
\* h its floor (x in half-hundredths).
RoundHalfEven(x200, h) ==
    IF x200 = NInt(h) /\ h % 2 = 1 /\ ((h - 1) \div 2) % 2 = 0
    THEN NFrac((h - 1) \div 2, 100)
    ELSE NFrac((h + 1) \div 2, 100)

\* Python round(x, 2).
Round2(x) == RoundHalfEven(NMul(NInt(200), x), NFloor(NMul(NInt(200), x)))

(***************************************************************************)
(* Python lists of numbers (sequences of integers).                        *)
(***************************************************************************)
RECURSIVE SeqSum(_)
SeqSum(s) == IF s = <<>> THEN 0 ELSE Head(s) + SeqSum(Tail(s))

RECURSIVE NSeqSum(_)
NSeqSum(s) == IF s = <<>> THEN NZero ELSE NAdd(Head(s), NSeqSum(Tail(s)))

RECURSIVE SeqMax(_)
SeqMax(s) ==
    IF Len(s) = 1 THEN s[1]
    ELSE IF s[1] >= s[2] THEN SeqMax(<<s[1]>> \o SubSeq(s, 3, Len(s)))
    ELSE SeqMax(Tail(s))

RECURSIVE SeqMin(_)
SeqMin(s) ==
    IF Len(s) = 1 THEN s[1]
    ELSE IF s[1] <= s[2] THEN SeqMin(<<s[1]>> \o SubSeq(s, 3, Len(s)))
    ELSE SeqMin(Tail(s))

\* Index of the first occurrence of x in s, 0 when there is none.
FirstIndex(s, x) ==
    IF \E i \in 1..Len(s) : s[i] = x
    THEN CHOOSE i \in 1..Len(s) : s[i] = x /\ \A j \in 1..(i - 1) : s[j] # x
    ELSE 0

RemoveAt(s, i) == SubSeq(s, 1, i - 1) \o SubSeq(s, i + 1, Len(s))

(***************************************************************************)
(* Descriptive statistics.                                                 *)
(***************************************************************************)
calculate_mean(values) ==
    IF values = <<>> THEN NZero
    ELSE NDiv(NInt(SeqSum(values)), NInt(Len(values)))

\* Mutant of Deviation: the mean is not subtracted.
DeviationFromZero(v, mean) == NInt(v)

\* The deviation whose square enters the variance.
Deviation(v, mean) == NSub(NInt(v), mean)

\* sum((v - mean) ** 2 for v in values) / (n - 1)
Variance(values, mean) ==
    NDiv(NSeqSum([i \in 1..Len(values) |-> NSquare(Deviation(values[i], mean))]),
         NInt(Len(values) - 1))

calculate_std(values) ==
    IF Len(values) < 2 THEN NZero
    ELSE NSqrt(Variance(values, calculate_mean(values)))

\* sum((x[i] - x_mean) * (values[i] - y_mean) for i in range(n)), x = range(n)
TrendNum(values, x_mean, y_mean) ==
    NSeqSum([i \in 1..Len(values) |->
                NMul(NSub(NInt(i - 1), x_mean), NSub(NInt(values[i]), y_mean))])

\* sum((x[i] - x_mean) ** 2 for i in range(n))
TrendDen(values, x_mean) ==
    NSeqSum([i \in 1..Len(values) |-> NSquare(NSub(NInt(i - 1), x_mean))])

\* num / den if den != 0 else 0
TrendSlope(num, den) == IF den # NZero THEN NDiv(num, den) ELSE NZero

calculate_trend(values) ==
    IF Len(values) < 2 THEN NZero
    ELSE TrendSlope(TrendNum(values, calculate_mean([i \in 1..Len(values) |-> i - 1]),
                             calculate_mean(values)),
                    TrendDen(values, calculate_mean([i \in 1..Len(values) |-> i - 1])))

(***************************************************************************)
(* process_yearly_data.  A daily block maps some of the series names to a   *)
(* list whose elements are None or Some(number).                           *)
(***************************************************************************)
DailyGet(daily, key) == IF key \in DOMAIN daily THEN daily[key] ELSE <<>>

Values(s) == [i \in 1..Len(s) |-> s[i][1]]

\* Mutant of IsValidPrecip: a day without rain is not counted.
IsRainyDay(e) == e # None /\ e[1] > 0

\* v is not None and v >= 0
IsValidPrecip(e) == e # None /\ e[1] >= 0

\* v is not None
IsPresent(e) == e # None

\* Mutant of CountPoints: every sample of the series is counted.
CountAllSamples(precipitation_sum, valid_precip) == Len(precipitation_sum)

\* len(valid_precip)
CountPoints(precipitation_sum, valid_precip) == Len(valid_precip)

process_yearly_data(daily, year) ==
    LET precipitation_sum == DailyGet(daily, "precipitation_sum")
        temp_max == DailyGet(daily, "temperature_2m_max")
        temp_min == DailyGet(daily, "temperature_2m_min")
        temp_mean == DailyGet(daily, "temperature_2m_mean")
        wind_max == DailyGet(daily, "windspeed_10m_max")
        valid_precip == Values(SelectSeq(precipitation_sum, IsValidPrecip))
        valid_tmax == Values(SelectSeq(temp_max, IsPresent))
        valid_tmin == Values(SelectSeq(temp_min, IsPresent))
        valid_tmean == Values(SelectSeq(temp_mean, IsPresent))
        valid_wind == Values(SelectSeq(wind_max, IsPresent))
    IN  IF valid_precip = <<>> THEN None
        ELSE Some([year |-> year,
                   amdp |-> SeqMax(valid_precip),
                   totalPrecip |-> SeqSum(valid_precip),
                   avgTemp |-> IF valid_tmean # <<>>
                               THEN Some(calculate_mean(valid_tmean)) ELSE None,
                   maxTemp |-> IF valid_tmax # <<>> THEN Some(SeqMax(valid_tmax)) ELSE None,
                   minTemp |-> IF valid_tmin # <<>> THEN Some(SeqMin(valid_tmin)) ELSE None,
                   avgWind |-> IF valid_wind # <<>>
                               THEN Some(calculate_mean(valid_wind)) ELSE None,
                   dataPoints |-> CountPoints(precipitation_sum, valid_precip)])

(***************************************************************************)
(* calculate_pmp_with_eva.  Lists are objects on a heap (a sequence of     *)
(* lists, a reference being an index), so that a copy and an alias differ. *)
(***************************************************************************)
EpsInv == 1000000   \* eps = 1e-6 = 1 / EpsInv
FactorMin == 1      \* lower clamp of the frequency factor, 1.0
FactorMax == 25     \* upper clamp of the frequency factor, 25.0
ZNum == 196         \* 1.96 = ZNum / ZDen
ZDen == 100

\* Mutant of ListCopy: the same list object under a second name.
ListAlias(heap, r) == [heap |-> heap, ref |-> r]

\* list.copy(): a new list object with the same elements.
ListCopy(heap, r) == [heap |-> Append(heap, heap[r]), ref |-> Len(heap) + 1]

\* list.remove(x): removes the first occurrence, ValueError when none.
ListRemove(heap, r, x) ==
    LET i == FirstIndex(heap[r], x)
    IN  IF i = 0 THEN [heap |-> heap, raised |-> TRUE]
        ELSE [heap |-> [heap EXCEPT ![r] = RemoveAt(@, i)], raised |-> FALSE]

\* Mutant of ClampFactor: the upper bound is not applied.
ClampFactorNoCeiling(raw) == NMaxPy(NInt(FactorMin), raw)

\* max(1.0, min(25.0, frequency_factor_raw))
ClampFactor(raw) == NMaxPy(NInt(FactorMin), NMinPy(NInt(FactorMax), raw))

\* Mutant of PmpHeuristic: the spread is subtracted.
PmpBelowMean(mean, frequency_factor, std) == NSub(mean, NMul(frequency_factor, std))

\* mean + frequency_factor * std
PmpHeuristic(mean, frequency_factor, std) == NAdd(mean, NMul(frequency_factor, std))

\* The frame of calculate_pmp_with_eva is a record of its locals, built
\* statement by statement: each step below adds the locals one group of
\* statements assigns to the frame e0 of the statements before it.

\* mean, std, Xmax; the caller's list is object 1 of the heap.
EvaStats(values) ==
    [heap |-> <<values>>,
     amdp_values |-> 1,
     mean |-> calculate_mean(values),
     std |-> calculate_std(values),
     Xmax |-> SeqMax(values)]

\* rest = amdp_values.copy()
EvaCopy(e0) ==
    Pick({[heap |-> ListCopy(e.heap, e.amdp_values).heap,
           rest |-> ListCopy(e.heap, e.amdp_values).ref] @@ e : e \in {e0}})

\* try: rest.remove(Xmax)   except ValueError: rest = amdp_values[:]
EvaRemove(e0) ==
    Pick({IF ListRemove(e.heap, e.rest, e.Xmax).raised
          THEN [heap |-> ListCopy(e.heap, e.amdp_values).heap,
                rest |-> ListCopy(e.heap, e.amdp_values).ref] @@ e
          ELSE [heap |-> ListRemove(e.heap, e.rest, e.Xmax).heap] @@ e : e \in {e0}})

\* eps, Xmean, S
EvaSpread(e0) ==
    Pick({[eps |-> NFrac(1, EpsInv),
           Xmean |-> IF e.heap[e.rest] # <<>> THEN calculate_mean(e.heap[e.rest])
                     ELSE e.mean,
           S |-> IF e.heap[e.rest] # <<>>
                 THEN NMaxPy(calculate_std(e.heap[e.rest]), NFrac(1, EpsInv))
                 ELSE NMaxPy(e.std, NFrac(1, EpsInv))] @@ e : e \in {e0}})

\* km_a, km_b
EvaCandidates(e0) ==
    Pick({[km_a |-> NDiv(NSub(NInt(e.Xmax), e.Xmean), e.S),
           km_b |-> NDiv(NSub(NInt(e.Xmax), e.mean), NMaxPy(e.std, e.eps))] @@ e :
          e \in {e0}})

\* frequency_factor_raw = max(km_a, km_b)
EvaRaw(e0) ==
    Pick({[frequency_factor_raw |-> NMaxPy(e.km_a, e.km_b)] @@ e : e \in {e0}})

\* frequency_factor: clamped, then float(round(frequency_factor, 2))
EvaFactor(e0) ==
    Pick({[frequency_factor |-> Round2(ClampFactor(e.frequency_factor_raw))] @@ e :
          e \in {e0}})

\* pmp, n, standard_error
EvaPmp(e0) ==
    Pick({[pmp |-> PmpHeuristic(e.mean, e.frequency_factor, e.std),
           n |-> Len(e.heap[e.amdp_values]),
           standard_error |->
               NDiv(e.std, IF Len(e.heap[e.amdp_values]) > 0
                           THEN NSqrt(NInt(Len(e.heap[e.amdp_values]))) ELSE NInt(1))]
          @@ e : e \in {e0}})

\* confidence_interval and the value returned
EvaReturn(e0) ==
    Pick({[raised |-> "",
           result |->
               [pmp |-> e.pmp,
                frequencyFactor |-> e.frequency_factor,
                confidenceInterval |->
                    [lower |-> NSub(e.pmp, NMul(NFrac(ZNum, ZDen), e.standard_error)),
                     upper |-> NAdd(e.pmp, NMul(NFrac(ZNum, ZDen), e.standard_error))]]]
          @@ e : e \in {e0}})

\* The frame at return: its locals (heap[rest] is the list rest,
\* heap[amdp_values] the caller's list) and result, the value returned.
calculate_pmp_with_eva(values) ==
    IF values = <<>> THEN [raised |-> "ValueError"]    \* max() of an empty list
    ELSE EvaReturn(EvaPmp(EvaFactor(EvaRaw(EvaCandidates(EvaSpread(EvaRemove(EvaCopy(
             EvaStats(values)))))))))

(***************************************************************************)
(* calculate_hydrological_parameters                                       *)
(***************************************************************************)
Column(annual_data, key) == [i \in 1..Len(annual_data) |-> annual_data[i][key]]

\* Mutant of AdjustPmp: the factor is applied whatever its sign.
AdjustAlways(pmp, climate_factor) == NMul(pmp, NAdd(NInt(1), climate_factor))

\* pmp * (1 + climate_factor) if climate_factor > 0 else pmp
AdjustPmp(pmp, climate_factor) ==
    IF NLt(NZero, climate_factor) THEN NMul(pmp, NAdd(NInt(1), climate_factor))
    ELSE pmp

\* Mutant of ReportInterval: the interval moves with the climate adjustment.
ReportIntervalAdjusted(eva_results, climate_factor) ==
    [lower |-> AdjustPmp(eva_results.confidenceInterval.lower, climate_factor),
     upper |-> AdjustPmp(eva_results.confidenceInterval.upper, climate_factor)]

\* 'confidenceInterval': eva_results['confidenceInterval']
ReportInterval(eva_results, climate_factor) == eva_results.confidenceInterval

\* (std_amdp / mean_amdp) * 100 if mean_amdp != 0 else 0
Variability(std_amdp, mean_amdp) ==
    IF mean_amdp # NZero THEN NMul(NDiv(std_amdp, mean_amdp), NInt(100)) ELSE NZero

\* The report built from the estimator's frame.
HydroReport(annual_data, climate_factor, amdp_values, eva0) ==
    Pick({IF eva.raised # "" THEN [raised |-> eva.raised, eva |-> eva]
          ELSE [raised |-> "",
                eva |-> eva,
                report |->
                    [meanAMDP |-> calculate_mean(amdp_values),
                     stdAMDP |-> calculate_std(amdp_values),
                     meanAnnualPrecip |->
                         calculate_mean(Column(annual_data, "totalPrecip")),
                     pmp |-> AdjustPmp(eva.result.pmp, climate_factor),
                     pmpUnadjusted |-> eva.result.pmp,
                     frequencyFactor |-> eva.result.frequencyFactor,
                     climateAdjustment |-> climate_factor,
                     trend |-> calculate_trend(amdp_values),
                     variability |-> Variability(calculate_std(amdp_values),
                                                 calculate_mean(amdp_values)),
                     dataPoints |-> Len(annual_data),
                     yearsCovered |-> Len(annual_data),
                     confidenceInterval |->
                         ReportInterval(eva.result, climate_factor)]] : eva \in {eva0}})

calculate_hydrological_parameters(annual_data, climate_factor) ==
    HydroReport(annual_data, climate_factor, Column(annual_data, "amdp"),
                calculate_pmp_with_eva(Column(annual_data, "amdp")))

(***************************************************************************)
(* State.                                                                  *)
(***************************************************************************)
VARIABLES
    pc,              \* where the program is
    daily,           \* process_yearly_data: the daily block given
    year,            \* process_yearly_data: the year given; analyze: the loop variable
    year_data,       \* process_yearly_data: what it returned
    annual_data,     \* the list of annual summaries
    climate_factor,  \* the climate adjustment factor
    eva,             \* locals and result of the last calculate_pmp_with_eva call
    report,          \* result of the last calculate_hydrological_parameters call
    start_year,      \* analyze: first year of the requested range
    end_year,        \* analyze: last year of the requested range
    fetched,         \* analyze: what the archive answered for each year tried
    calls,           \* analyze: the argument of every call of the calculator
    response         \* analyze: the response returned

vars == <<pc, daily, year, year_data, annual_data, climate_factor, eva, report,
          start_year, end_year, fetched, calls, response>>

\* All sequences over S of length lo..hi.
SeqsOf(S, lo, hi) == UNION {[1..k -> S] : k \in lo..hi}

Merge(f, g) == [k \in (DOMAIN f) \cup (DOMAIN g) |-> IF k \in DOMAIN f THEN f[k] ELSE g[k]]

EmptyDict == [k \in {} |-> <<>>]

AuxKeys == {"temperature_2m_max", "temperature_2m_min", "temperature_2m_mean",
            "windspeed_10m_max"}

\* Daily precipitation samples: absent, negative (invalid), zero, positive.
PrecipSamples == {None, Some(-1), Some(0), Some(2)}

\* A temperature or wind series: empty, all absent, or partly present.
AuxSeries == {<<>>, <<None>>, <<Some(-1), None, Some(3)>>}

\* The daily blocks process_yearly_data is given: any series may be missing
\* from the block.
DailyInputs ==
    {Merge(pm, am) :
        pm \in {EmptyDict} \cup {[k \in {"precipitation_sum"} |-> s] :
                                    s \in SeqsOf(PrecipSamples, 0, MaxDays)},
        am \in UNION {[ks -> AuxSeries] : ks \in SUBSET AuxKeys}}

ClimateFactors == {NFrac(-1, 2), NZero, NFrac(1, 10), NInt(2)}

Years == FirstYear..(FirstYear + MaxYears - 1)

\* The annual summary of a year whose only valid sample is amdp.
SummaryOf(y, amdp) ==
    [year |-> y, amdp |-> amdp, totalPrecip |-> amdp, avgTemp |-> None,
     maxTemp |-> None, minTemp |-> None, avgWind |-> None, dataPoints |-> 1]

\* The sequences of annual summaries the calculator is given, by year.
SummaryInputs ==
    {[i \in 1..Len(a) |-> SummaryOf(FirstYear + i - 1, a[i])] :
        a \in SeqsOf(0..MaxAmdp, 1, MaxN)}

Idle == <<>>

(***************************************************************************)
(* process_yearly_data on one daily block.                                 *)
(***************************************************************************)
InitYear ==
    /\ pc = "year_call"
    /\ daily \in DailyInputs
    /\ year \in {FirstYear, FirstYear + MaxYears - 1}
    /\ year_data = Idle
    /\ annual_data = <<>>
    /\ climate_factor = NZero
    /\ eva = Idle
    /\ report = Idle
    /\ start_year = year
    /\ end_year = year
    /\ fetched = <<>>
    /\ calls = <<>>
    /\ response = Idle

ProcessYear ==
    /\ pc = "year_call"
    /\ year_data' = process_yearly_data(daily, year)
    /\ pc' = "year_done"
    /\ UNCHANGED <<daily, year, annual_data, climate_factor, eva, report,
                   start_year, end_year, fetched, calls, response>>

NextYear == ProcessYear

SpecYear == InitYear /\ [][NextYear]_vars

(***************************************************************************)
(* calculate_hydrological_parameters on one sequence of annual summaries.  *)
(***************************************************************************)
InitCalc ==
    /\ pc = "calc_call"
    /\ daily = EmptyDict
    /\ year = FirstYear
    /\ year_data = Idle
    /\ annual_data \in SummaryInputs
    /\ climate_factor \in ClimateFactors
    /\ eva = Idle
    /\ report = Idle
    /\ start_year = FirstYear
    /\ end_year = FirstYear
    /\ fetched = <<>>
    /\ calls = <<>>
    /\ response = Idle

Calculate ==
    /\ pc = "calc_call"
    /\ \E r \in {calculate_hydrological_parameters(annual_data, climate_factor)} :
           /\ eva' = r.eva
           /\ report' = r.report
    /\ pc' = "calc_done"
    /\ UNCHANGED <<daily, year, year_data, annual_data, climate_factor,
                   start_year, end_year, fetched, calls, response>>

NextCalc == Calculate

SpecCalc == InitCalc /\ [][NextCalc]_vars

(***************************************************************************)
(* analyze: the request handler.  The archive's answer for a year is drawn *)
(* by the action taken: the request or the decoding raises, the status is  *)
(* not 200, the answer holds no daily block, or it holds one.              *)
(***************************************************************************)
\* The daily blocks the archive answers with (a non-empty mapping).
ArchiveDaily ==
    {[k \in {"precipitation_sum"} |-> s] :
        s \in {<<None>>, <<Some(-1)>>, <<Some(0)>>, <<None, Some(1), Some(2)>>,
               <<Some(3), Some(-1)>>}}
    \cup {[k \in {"temperature_2m_max"} |-> <<Some(3)>>]}

RequestFactors == {NZero, NFrac(1, 10)}

\* Insertion of x after the elements whose year is not greater (stable).
RECURSIVE InsertByYear(_, _)
InsertByYear(s, x) ==
    IF s = <<>> THEN <<x>>
    ELSE IF s[Len(s)].year <= x.year THEN Append(s, x)
    ELSE Append(InsertByYear(SubSeq(s, 1, Len(s) - 1), x), s[Len(s)])

\* sorted(annual_data, key=lambda x: x['year'])
RECURSIVE SortedByYear(_)
SortedByYear(s) ==
    IF s = <<>> THEN <<>>
    ELSE InsertByYear(SortedByYear(SubSeq(s, 1, Len(s) - 1)), s[Len(s)])

\* Mutant of Continue: the loop is left (break).
Break(y, last) == last + 1

\* The loop variable after an iteration ended by `continue`.
Continue(y, last) == y + 1

\* if year_data: annual_data.append(year_data)
AppendYear(data, yd) == IF yd # None THEN Append(data, yd[1]) ELSE data

\* Mutant of NoData: the empty list is not rejected.
NeverNoData(data) == FALSE

\* not annual_data
NoData(data) == data = <<>>

Init ==
    /\ pc = "loop"
    /\ daily = EmptyDict
    /\ start_year \in Years
    /\ end_year \in Years
    /\ year = start_year
    /\ year_data = Idle
    /\ annual_data = <<>>
    /\ climate_factor \in RequestFactors
    /\ eva = Idle
    /\ report = Idle
    /\ fetched = <<>>
    /\ calls = <<>>
    /\ response = Idle

InLoop == pc = "loop" /\ year <= end_year

\* An iteration that ends in `continue` without a daily block.
Skip(outcome) ==
    /\ InLoop
    /\ fetched' = Append(fetched, [year |-> year, outcome |-> outcome, daily |-> EmptyDict])
    /\ year' = Continue(year, end_year)
    /\ UNCHANGED <<pc, daily, year_data, annual_data, climate_factor, eva, report,
                   start_year, end_year, calls, response>>

\* requests.get or resp.json raises: except Exception: continue
FetchRaises == Skip("exception")

\* resp.status_code != 200
FetchBadStatus == Skip("status")

\* not data.get('daily')
FetchNoDaily == Skip("nodaily")

FetchDaily ==
    /\ InLoop
    /\ \E d \in ArchiveDaily :
        /\ fetched' = Append(fetched, [year |-> year, outcome |-> "daily", daily |-> d])
        /\ daily' = d
        /\ \E yd \in {process_yearly_data(d, year)} :
            /\ year_data' = yd
            /\ annual_data' = AppendYear(annual_data, yd)
    /\ year' = year + 1
    /\ UNCHANGED <<pc, climate_factor, eva, report, start_year, end_year, calls,
                   response>>

LoopOver == pc = "loop" /\ year > end_year

RespondNoData ==
    /\ LoopOver
    /\ NoData(SortedByYear(annual_data))
    /\ annual_data' = SortedByYear(annual_data)
    /\ response' = [status |-> 400,
                    body |-> [error |-> "No valid data received for the selected location and time period",
                              annualData |-> <<>>]]
    /\ pc' = "done"
    /\ UNCHANGED <<daily, year, year_data, climate_factor, eva, report, start_year,
                   end_year, fetched, calls>>

RespondAnalysis ==
    /\ LoopOver
    /\ ~NoData(SortedByYear(annual_data))
    /\ annual_data' = SortedByYear(annual_data)
    /\ calls' = Append(calls, annual_data')
    /\ \E r \in {calculate_hydrological_parameters(annual_data', climate_factor)} :
        /\ eva' = r.eva
        /\ IF r.raised # ""
           THEN /\ report' = Idle
                /\ response' = [status |-> 500, body |-> [error |-> r.raised]]
           ELSE /\ report' = r.report
                /\ response' = [status |-> 200,
                                body |-> [annualData |-> annual_data',
                                          analysisResults |-> r.report]]
    /\ pc' = "done"
    /\ UNCHANGED <<daily, year, year_data, climate_factor, start_year, end_year,
                   fetched>>

Next ==
    \/ FetchRaises
    \/ FetchBadStatus
    \/ FetchNoDaily
    \/ FetchDaily
    \/ RespondNoData
    \/ RespondAnalysis

Spec == Init /\ [][Next]_vars

(***************************************************************************)
(* Properties.  What a property says of the input is stated on the input   *)
(* itself, not through the operators of the model.                         *)
(***************************************************************************)
CalcDone == pc = "calc_done"
YearDone == pc = "year_done"
Served == pc = "done"

\* The AMDP series the calculator was given.
Series == Column(annual_data, "amdp")

AllPositive(s) == \A i \in 1..Len(s) : s[i] > 0
AllEqual(s) == \A i \in 1..Len(s) : s[i] = s[1]
IsMaxOf(x, s) == (\E i \in 1..Len(s) : s[i] = x) /\ (\A i \in 1..Len(s) : s[i] <= x)
Occurrences(x, s) == Cardinality({i \in 1..Len(s) : s[i] = x})

\* The list the estimator's local rest names at return, and the caller's list.
RestList == eva.heap[eva.rest]
CallerList == eva.heap[eva.amdp_values]

\* C1: for every non-empty AMDP series the frequencyFactor returned by
\* calculate_pmp_with_eva lies in the closed range [1.0, 25.0].
C1_FactorInRange ==
    CalcDone =>
        /\ NLe(NInt(1), eva.result.frequencyFactor)
        /\ NLe(eva.result.frequencyFactor, NInt(25))
        /\ report.frequencyFactor = eva.result.frequencyFactor

\* A series of positive numbers whose raw factor exceeds 25 and is clamped.
C1_Witness ==
    /\ CalcDone
    /\ AllPositive(Series)
    /\ NLt(NInt(25), eva.frequency_factor_raw)
    /\ eva.result.frequencyFactor = NInt(25)

C8_RestRemovesOneMax ==
    CalcDone =>
        /\ IsMaxOf(eva.Xmax, Series)
        /\ Len(RestList) = Len(Series) - 1
        /\ \E i \in 1..Len(Series) :
              /\ Series[i] = eva.Xmax
              /\ RestList = [j \in 1..(Len(Series) - 1) |->
                                IF j < i THEN Series[j] ELSE Series[j + 1]]
        /\ \A x \in 0..MaxAmdp :
              Occurrences(x, RestList) =
                  Occurrences(x, Series) - (IF x = eva.Xmax THEN 1 ELSE 0)
        /\ (Occurrences(eva.Xmax, Series) > 1 =>
                \E j \in 1..Len(RestList) : RestList[j] = eva.Xmax)
        /\ CallerList = Series

\* The series [3, 3, 1, 2] (the shape of [50, 50, 10, 12]) leaves [3, 1, 2].
C8_Witness ==
    /\ CalcDone
    /\ Series = <<3, 3, 1, 2>>
    /\ RestList = <<3, 1, 2>>
    /\ CallerList = <<3, 3, 1, 2>>

\* C9: the pmp returned by calculate_pmp_with_eva is greater than or equal
\* to the arithmetic mean of the series.
C9_PmpAtLeastMean ==
    CalcDone => NLe(NFrac(SeqSum(Series), Len(Series)), eva.result.pmp)

\* A series with spread, its pmp strictly above its mean.
C9_Witness ==
    /\ CalcDone
    /\ ~AllEqual(Series)
    /\ AllPositive(Series)
    /\ NLt(NFrac(SeqSum(Series), Len(Series)), eva.result.pmp)

\* C4 as claimed: when climateFactor <= 0 the reported pmp equals
\* pmpUnadjusted, and when climateFactor > 0 it is strictly greater.
C4_Original ==
    CalcDone =>
        /\ (NLe(climate_factor, NZero) => report.pmp = report.pmpUnadjusted)
        /\ (NLt(NZero, climate_factor) => NLt(report.pmpUnadjusted, report.pmp))

\* C4 as amended: when climateFactor <= 0 the reported pmp equals
\* pmpUnadjusted; when climateFactor > 0 it is never smaller, strictly
\* greater when pmpUnadjusted > 0 and equal when pmpUnadjusted is 0 (every
\* AMDP of the series is 0).
C4_Amended ==
    CalcDone =>
        /\ NLe(NZero, report.pmpUnadjusted)
        /\ (NLe(climate_factor, NZero) => report.pmp = report.pmpUnadjusted)
        /\ (NLt(NZero, climate_factor) =>
               /\ NLe(report.pmpUnadjusted, report.pmp)
               /\ (NLt(NZero, report.pmpUnadjusted) =>
                       NLt(report.pmpUnadjusted, report.pmp))
               /\ (report.pmpUnadjusted = NZero => report.pmp = report.pmpUnadjusted))

\* A positive climate factor applied to an estimate of 0: nothing is added.
C4_Witness ==
    /\ CalcDone
    /\ NLt(NZero, climate_factor)
    /\ \A i \in 1..Len(Series) : Series[i] = 0
    /\ report.pmpUnadjusted = NZero
    /\ report.pmp = report.pmpUnadjusted

\* C10: the confidenceInterval of the report is the one around the
\* unadjusted estimate, pmpUnadjusted -/+ 1.96 * stdAMDP / sqrt(n): it holds
\* pmpUnadjusted, is symmetric about it and does not move with the climate
\* adjustment.
C10_IntervalAroundUnadjusted ==
    CalcDone =>
        /\ NLe(report.confidenceInterval.lower, report.pmpUnadjusted)
        /\ NLe(report.pmpUnadjusted, report.confidenceInterval.upper)
        /\ NSub(report.confidenceInterval.upper, report.pmpUnadjusted)
               = NSub(report.pmpUnadjusted, report.confidenceInterval.lower)
        /\ NSub(report.confidenceInterval.upper, report.pmpUnadjusted)
               = NDiv(NMul(NFrac(196, 100), report.stdAMDP),
                      NSqrt(NInt(report.yearsCovered)))

\* A positive climate factor puts the reported pmp above the interval of a
\* series with spread.
C10_Witness ==
    /\ CalcDone
    /\ NLt(NZero, climate_factor)
    /\ NLt(NZero, report.stdAMDP)
    /\ NLt(report.confidenceInterval.lower, report.confidenceInterval.upper)
    /\ NLt(report.confidenceInterval.upper, report.pmp)

(***************************************************************************)
(* Properties of process_yearly_data.                                      *)
(***************************************************************************)
\* The indices of the valid samples of a precipitation series: present and
\* not negative.
ValidDays(d) ==
    {i \in 1..Len(DailyGet(d, "precipitation_sum")) :
        /\ DailyGet(d, "precipitation_sum")[i] # None
        /\ DailyGet(d, "precipitation_sum")[i][1] >= 0}

PrecipOn(d, i) == DailyGet(d, "precipitation_sum")[i][1]

RECURSIVE TotalOver(_, _)
TotalOver(d, days) ==
    IF days = {} THEN 0
    ELSE PrecipOn(d, Pick(days)) + TotalOver(d, days \ {Pick(days)})

\* Whether the series named key holds a present value.
HasPresent(d, key) == \E i \in 1..Len(DailyGet(d, key)) : DailyGet(d, key)[i] # None

\* C2: process_yearly_data returns None if and only if the precipitation
\* series holds no value both present and >= 0; otherwise it returns a
\* summary, whatever the temperature and wind series hold, and each of
\* avgTemp, maxTemp, minTemp, avgWind is absent exactly when its own series
\* holds no present value.
C2_NoDataIffNoValidPrecip ==
    YearDone =>
        /\ (year_data = None <=> ValidDays(daily) = {})
        /\ (year_data # None =>
               /\ Len(year_data) = 1
               /\ (year_data[1].avgTemp = None <=> ~HasPresent(daily, "temperature_2m_mean"))
               /\ (year_data[1].maxTemp = None <=> ~HasPresent(daily, "temperature_2m_max"))
               /\ (year_data[1].minTemp = None <=> ~HasPresent(daily, "temperature_2m_min"))
               /\ (year_data[1].avgWind = None <=> ~HasPresent(daily, "windspeed_10m_max")))

\* A year of valid precipitation whose temperature series are missing from
\* the block and whose wind series holds only absent values: a summary with
\* the four aggregates absent.
C2_Witness ==
    /\ YearDone
    /\ ValidDays(daily) # {}
    /\ DOMAIN daily = {"precipitation_sum", "windspeed_10m_max"}
    /\ ~HasPresent(daily, "windspeed_10m_max")
    /\ year_data # None
    /\ year_data[1].avgTemp = None
    /\ year_data[1].maxTemp = None
    /\ year_data[1].minTemp = None
    /\ year_data[1].avgWind = None

\* C3: in every summary amdp is the maximum of the valid daily precipitation
\* values, totalPrecip their sum and dataPoints their count (so at least 1);
\* absent and negative samples contribute to none of them.
C3_SummaryOfValidPrecip ==
    (YearDone /\ year_data # None) =>
        /\ \E i \in ValidDays(daily) : year_data[1].amdp = PrecipOn(daily, i)
        /\ \A i \in ValidDays(daily) : PrecipOn(daily, i) <= year_data[1].amdp
        /\ year_data[1].totalPrecip = TotalOver(daily, ValidDays(daily))
        /\ year_data[1].dataPoints = Cardinality(ValidDays(daily))
        /\ year_data[1].dataPoints >= 1
        /\ year_data[1].year = year

\* A year with an absent, a negative and a valid sample: one data point.
C3_Witness ==
    /\ YearDone
    /\ year_data # None
    /\ Len(DailyGet(daily, "precipitation_sum")) = 3
    /\ \E i \in 1..3 : DailyGet(daily, "precipitation_sum")[i] = None
    /\ \E i \in 1..3 : DailyGet(daily, "precipitation_sum")[i] = Some(-1)
    /\ year_data[1].dataPoints = 1
    /\ year_data[1].amdp = 2
    /\ year_data[1].totalPrecip = 2

(***************************************************************************)
(* Properties of analyze.                                                  *)
(***************************************************************************)
\* The years tried so far whose answer held a daily block with a valid
\* precipitation sample.
YieldingYears ==
    {fetched[i].year : i \in {j \in 1..Len(fetched) :
        fetched[j].outcome = "daily" /\ ValidDays(fetched[j].daily) # {}}}

YearsOf(data) == [i \in 1..Len(data) |-> data[i].year]

\* C5: if no year yields an annual summary the service returns the error
\* response with an empty annualData and the calculator is never called;
\* the calculator is only ever called with a non-empty sequence.
C5_EmptyDatasetRejected ==
    /\ \A i \in 1..Len(calls) : calls[i] # <<>>
    /\ (Served /\ YieldingYears = {}) =>
           /\ response.status = 400
           /\ response.body.annualData = <<>>
           /\ calls = <<>>
           /\ report = Idle

\* A request over several years, each failing in its own way or without a
\* valid sample, answered with the error.
C5_Witness ==
    /\ Served
    /\ Len(fetched) = MaxYears
    /\ \E i \in 1..Len(fetched) : fetched[i].outcome = "exception"
    /\ \E i \in 1..Len(fetched) : fetched[i].outcome = "daily"
    /\ YieldingYears = {}
    /\ response.status = 400
    /\ calls = <<>>

\* C6: after the loop over [startYear, endYear] every year of the range has
\* been tried, in order; annualData, as given to the calculator and as
\* returned, holds exactly the yielding years, each once, in strictly
\* ascending order; yearsCovered is its length.
C6_AnnualDataIsYieldingYears ==
    Served =>
        /\ YearsOf(fetched) = [i \in 1..(end_year - start_year + 1) |-> start_year + i - 1]
        /\ {annual_data[i].year : i \in 1..Len(annual_data)} = YieldingYears
        /\ \A i \in 1..(Len(annual_data) - 1) : annual_data[i].year < annual_data[i + 1].year
        /\ (YieldingYears # {} =>
               /\ response.status = 200
               /\ response.body.annualData = annual_data
               /\ calls = <<annual_data>>
               /\ response.body.analysisResults.yearsCovered = Len(annual_data)
               /\ response.body.analysisResults.yearsCovered = Cardinality(YieldingYears))
        /\ (YieldingYears = {} => response.body.annualData = <<>>)

\* A request whose first year fails and whose last year yields: the failure
\* does not stop the loop, and only the yielding years are reported.
C6_Witness ==
    /\ Served
    /\ Len(fetched) = MaxYears
    /\ fetched[1].outcome = "exception"
    /\ fetched[MaxYears].year \in YieldingYears
    /\ response.status = 200
    /\ YearsOf(response.body.annualData) = <<fetched[MaxYears].year>>

====
